---- MODULE Spec2Model ----
(***************************************************************************)
(* Luhn checksums of luhn3 (src/src/lib.rs): the scalar decimal fold, the  *)
(* alphanumeric fold, the SSE fold and the streaming Mixer.                *)
(*                                                                         *)
(* A byte is a number in 0..255, a slice &[u8] a sequence of bytes, and    *)
(* an Option<T> a sequence of length at most one: None is <<>> and         *)
(* Some(v) is <<v>>.                                                       *)
(***************************************************************************)
EXTENDS Integers, Sequences, FiniteSets, TLC

None == <<>>
Some(v) == <<v>>

(***************************************************************************)
(* Bounds of the model.                                                    *)
(***************************************************************************)
\* longest decimal-mode slice of the scalar driver
MaxLen == 4
\* longest alphanumeric-mode slice of the scalar driver, of the fold36 walk
\* and of the Mixer's alphanumeric feed
MaxLenA == 2
\* most digits pushed onto the Mixer by the digit feed
MaxPush == 4
\* how far past one full 16-byte chunk the vector tier's slices reach
MaxTail == 2
\* longest slice of the vector tier's driver that is tried with every content
MaxShort == 3

(***************************************************************************)
(* fold10: the scalar decimal fold.                                        *)
(***************************************************************************)
\* const LUT of fold10, 0-indexed in the source
LUT == <<0, 1, 2, 3, 4, 6, 7, 8, 9, 0>>

\* fold10's iteration without `correct = !correct`
fold10_byte_no_toggle(correct, acc, c) ==
    IF c >= 48 /\ c <= 57
    THEN LET digit == c - 48
         IN  [ok      |-> TRUE,
              acc     |-> acc + digit + (IF correct THEN LUT[digit + 1] ELSE 0),
              correct |-> correct]
    ELSE [ok |-> FALSE, acc |-> acc, correct |-> correct]

\* fold10's iteration with `_ => continue` for `_ => return None`
fold10_byte_skip(correct, acc, c) ==
    IF c >= 48 /\ c <= 57
    THEN LET digit == c - 48
         IN  [ok      |-> TRUE,
              acc     |-> acc + digit + (IF correct THEN LUT[digit + 1] ELSE 0),
              correct |-> ~correct]
    ELSE [ok |-> TRUE, acc |-> acc, correct |-> correct]

\* One iteration of fold10's loop on byte c: ok is FALSE on `return None`.
fold10_byte(correct, acc, c) ==
    IF c >= 48 /\ c <= 57
    THEN LET digit == c - 48
         IN  [ok      |-> TRUE,
              acc     |-> acc + digit + (IF correct THEN LUT[digit + 1] ELSE 0),
              correct |-> ~correct]
    ELSE [ok |-> FALSE, acc |-> acc, correct |-> correct]

\* The loop of fold10 with the bytes raw[1..i] still to visit, last first.
RECURSIVE fold10_loop(_, _, _, _)
fold10_loop(correct, acc, raw, i) ==
    IF i = 0
    THEN Some(acc)
    ELSE LET r == fold10_byte(correct, acc, raw[i])
         IN  IF r.ok THEN fold10_loop(r.correct, r.acc, raw, i - 1) ELSE None

fold10(correct, raw) == fold10_loop(correct, 0, raw, Len(raw))

(***************************************************************************)
(* fold36: the alphanumeric fold.                                          *)
(***************************************************************************)
LUT_DIGIT == <<0, 1, 2, 3, 4, 6, 7, 8, 9, 0>>

LUT_LETTER_T ==
    <<1, 3, 5, 7, 9, 2, 4, 6, 8, 10, 2, 4, 6, 8, 10, 3, 5, 7, 9, 11, 3, 5, 7, 9, 11, 4>>

LUT_LETTER_F ==
    <<2, 3, 4, 5, 6, 7, 8, 9, 10, 11, 4, 5, 6, 7, 8, 9, 10, 11, 12, 13, 6, 7, 8, 9, 10, 11>>

\* fold36's iteration with `acc += digit` done only when `correct` is false
fold36_byte_lut_only(correct, acc, c) ==
    IF c >= 48 /\ c <= 57
    THEN LET digit == c - 48
         IN  [ok      |-> TRUE,
              acc     |-> acc + (IF correct THEN LUT_DIGIT[digit + 1] ELSE digit),
              correct |-> ~correct]
    ELSE IF c >= 65 /\ c <= 90
    THEN LET letter == c - 65
         IN  [ok      |-> TRUE,
              acc     |-> acc + (IF correct THEN LUT_LETTER_T[letter + 1]
                                            ELSE LUT_LETTER_F[letter + 1]),
              correct |-> correct]
    ELSE [ok |-> FALSE, acc |-> acc, correct |-> correct]

\* fold36's iteration with the two letter tables taken for each other
fold36_byte_tables_swapped(correct, acc, c) ==
    IF c >= 48 /\ c <= 57
    THEN LET digit == c - 48
         IN  [ok      |-> TRUE,
              acc     |-> acc + digit + (IF correct THEN LUT_DIGIT[digit + 1] ELSE 0),
              correct |-> ~correct]
    ELSE IF c >= 65 /\ c <= 90
    THEN LET letter == c - 65
         IN  [ok      |-> TRUE,
              acc     |-> acc + (IF correct THEN LUT_LETTER_F[letter + 1]
                                            ELSE LUT_LETTER_T[letter + 1]),
              correct |-> correct]
    ELSE [ok |-> FALSE, acc |-> acc, correct |-> correct]

\* fold36's iteration with `correct = !correct` in the letter arm too
fold36_byte_letter_toggles(correct, acc, c) ==
    IF c >= 48 /\ c <= 57
    THEN LET digit == c - 48
         IN  [ok      |-> TRUE,
              acc     |-> acc + digit + (IF correct THEN LUT_DIGIT[digit + 1] ELSE 0),
              correct |-> ~correct]
    ELSE IF c >= 65 /\ c <= 90
    THEN LET letter == c - 65
         IN  [ok      |-> TRUE,
              acc     |-> acc + (IF correct THEN LUT_LETTER_T[letter + 1]
                                            ELSE LUT_LETTER_F[letter + 1]),
              correct |-> ~correct]
    ELSE [ok |-> FALSE, acc |-> acc, correct |-> correct]

\* One iteration of fold36's loop on byte c.
fold36_byte(correct, acc, c) ==
    IF c >= 48 /\ c <= 57
    THEN LET digit == c - 48
         IN  [ok      |-> TRUE,
              acc     |-> acc + digit + (IF correct THEN LUT_DIGIT[digit + 1] ELSE 0),
              correct |-> ~correct]
    ELSE IF c >= 65 /\ c <= 90
    THEN LET letter == c - 65
         IN  [ok      |-> TRUE,
              acc     |-> acc + (IF correct THEN LUT_LETTER_T[letter + 1]
                                            ELSE LUT_LETTER_F[letter + 1]),
              correct |-> correct]
    ELSE [ok |-> FALSE, acc |-> acc, correct |-> correct]

RECURSIVE fold36_loop(_, _, _, _)
fold36_loop(correct, acc, raw, i) ==
    IF i = 0
    THEN Some(acc)
    ELSE LET r == fold36_byte(correct, acc, raw[i])
         IN  IF r.ok THEN fold36_loop(r.correct, r.acc, raw, i - 1) ELSE None

fold36(correct, raw) == fold36_loop(correct, 0, raw, Len(raw))

(***************************************************************************)
(* The public scalar operations.                                           *)
(***************************************************************************)
\* the check digit without the outer % 10
check_digit_no_wrap(sum) == 48 + (10 - (sum % 10))

\* Some(b'0' + ((10 - (sum % 10)) % 10) as u8)
check_digit(sum) == 48 + ((10 - (sum % 10)) % 10)

decimal_valid(ascii) ==
    LET r == fold10(FALSE, ascii)
    IN  IF r = None THEN FALSE ELSE r[1] % 10 = 0

decimal_checksum(ascii) ==
    LET r == fold10(TRUE, ascii)
    IN  IF r = None THEN None ELSE Some(check_digit(r[1]))

alphanum_valid(ascii) ==
    LET r == fold36(FALSE, ascii)
    IN  IF r = None THEN FALSE ELSE r[1] % 10 = 0

alphanum_checksum(ascii) ==
    LET r == fold36(TRUE, ascii)
    IN  IF r = None THEN None ELSE Some(check_digit(r[1]))

(***************************************************************************)
(* fold10v: the SSE2/SSSE3 decimal fold, lane by lane.  A __m128i is a     *)
(* sequence of 16 bytes, lane 0 first.                                     *)
(***************************************************************************)
\* const LUT of fold10v
LUT_V == <<0, 2, 4, 6, 8, 1, 3, 5, 7, 9, 0, 0, 0, 0, 0, 0>>

\* the mask left as it is, whatever the chunk's length
rotate_left_none(x, n) == x

\* u16::rotate_left(n) for n < 16
rotate_left(x, n) == ((x * (2 ^ n)) % 65536) + (x \div (2 ^ (16 - n)))

\* the byte of lane j (0..15) of _mm_set1_epi16(d): little endian
set1_epi16(d, j) == IF j % 2 = 0 THEN d % 256 ELSE d \div 256

\* a byte read as i8
as_i8(x) == IF x >= 128 THEN x - 256 ELSE x

\* one lane of _mm_sub_epi8: wrapping
sub_epi8(a, b) == (a - b + 256) % 256

\* one lane of _mm_cmpgt_epi8(a, b): signed a > b
cmpgt_epi8(a, b) == as_i8(a) > as_i8(b)

\* one lane of _mm_shuffle_epi8(lut, b): zero when b's top bit is set
shuffle_epi8(lut, b) == IF b >= 128 THEN 0 ELSE lut[(b % 16) + 1]

\* bitwise and of two bytes
RECURSIVE and_bits(_, _)
and_bits(a, b) ==
    IF a = 0 \/ b = 0
    THEN 0
    ELSE (a % 2) * (b % 2) + 2 * and_bits(a \div 2, b \div 2)

\* one lane of _mm_and_si128 and of _mm_andnot_si128 (which negates its first)
and_si128(a, b) == and_bits(a, b)
andnot_si128(a, b) == and_bits(255 - a, b)

abs_diff(a, b) == IF a >= b THEN a - b ELSE b - a

\* _mm_sad_epu8 over the lanes lo..hi of s1 and s2 (1-indexed sequences)
RECURSIVE sad_epu8(_, _, _, _)
sad_epu8(s1, s2, lo, hi) ==
    IF lo > hi THEN 0 ELSE abs_diff(s1[lo], s2[lo]) + sad_epu8(s1, s2, lo + 1, hi)

\* The body of fold10v's loop on one chunk: the chunk's sum and whether all
\* of its 16 lanes hold digits (digits_mask == 65535).
fold10v_chunk(mask, chunk) ==
    LET l == Len(chunk)
        buf == [j \in 1..16 |-> IF j <= l THEN chunk[j] ELSE 48]
        d == rotate_left(mask, (l % 2) * 8)
        m == [j \in 1..16 |-> set1_epi16(d, j - 1)]
        shifted_digits == [j \in 1..16 |-> sub_epi8(buf[j], 48 + 128)]
        high_bound == 256 - 128 + 10
        all_digits == \A j \in 1..16 : cmpgt_epi8(high_bound, shifted_digits[j])
        digits == [j \in 1..16 |-> sub_epi8(buf[j], 48)]
        sums == [j \in 1..16 |-> shuffle_epi8(LUT_V, digits[j])]
        s1 == [j \in 1..16 |-> and_si128(m[j], sums[j])]
        s2 == [j \in 1..16 |-> andnot_si128(m[j], digits[j])]
    IN  [sum |-> sad_epu8(s1, s2, 1, 8) + sad_epu8(s1, s2, 9, 16), valid |-> all_digits]

\* The loop over raw.rchunks(16), with raw[1..hi] still to visit.
RECURSIVE fold10v_loop(_, _, _, _, _)
fold10v_loop(mask, raw, hi, acc, valid) ==
    IF hi = 0
    THEN IF valid THEN Some(acc) ELSE None
    ELSE LET l == IF hi >= 16 THEN 16 ELSE hi
             r == fold10v_chunk(mask, SubSeq(raw, hi - l + 1, hi))
         IN  fold10v_loop(mask, raw, hi - l, acc + r.sum, valid /\ r.valid)

fold10v(mask, raw) == fold10v_loop(mask, raw, Len(raw), 0, TRUE)

decimal_valid_vec(ascii) ==
    LET r == fold10v(255, ascii)
    IN  IF r = None THEN FALSE ELSE r[1] % 10 = 0

decimal_checksum_vec(ascii) ==
    LET r == fold10v(65280, ascii)
    IN  IF r = None THEN None ELSE Some(check_digit(r[1]))

(***************************************************************************)
(* Mixer: a pair of Blobs, self.0 first.                                   *)
(***************************************************************************)
Blob == [sum |-> 0, five_or_higher |-> 0]

Mixer == <<Blob, Blob>>

\* push without core::mem::swap
push_no_swap(self, digit) ==
    LET b0 == [sum            |-> self[1].sum + digit,
               five_or_higher |-> self[1].five_or_higher + (IF digit >= 5 THEN 1 ELSE 0)]
    IN  <<b0, self[2]>>

\* push with `digit > 5` for `digit >= 5`
push_above_five(self, digit) ==
    LET b0 == [sum            |-> self[1].sum + digit,
               five_or_higher |-> self[1].five_or_higher + (IF digit > 5 THEN 1 ELSE 0)]
    IN  <<self[2], b0>>

\* push with the addition to sum in an else arm of `if digit >= 5`
push_sum_in_else(self, digit) ==
    LET b0 == [sum            |-> self[1].sum + (IF digit >= 5 THEN 0 ELSE digit),
               five_or_higher |-> self[1].five_or_higher + (IF digit >= 5 THEN 1 ELSE 0)]
    IN  <<self[2], b0>>

push(self, digit) ==
    LET b0 == [sum            |-> self[1].sum + digit,
               five_or_higher |-> self[1].five_or_higher + (IF digit >= 5 THEN 1 ELSE 0)]
    IN  <<self[2], b0>>

\* the operand of % 10 in Mixer::valid, over the integers
Mixer_valid_sum(self) == self[1].sum * 2 - self[1].five_or_higher * 9 + self[2].sum

Mixer_valid(self) == Mixer_valid_sum(self) % 10 = 0

\* let checksum of Mixer::checksum, over the integers
Mixer_checksum_sum(self) == self[2].sum * 2 - self[2].five_or_higher * 9 + self[1].sum

Mixer_checksum(self) == 48 + ((10 - (Mixer_checksum_sum(self) % 10)) % 10)

(***************************************************************************)
(* State.                                                                  *)
(*   mode    which module's operations the driver calls                    *)
(*   sample  the slice a driver started from                               *)
(*   ascii   the slice the next call is handed (the test's Vec s), or the  *)
(*           characters a Mixer feed has consumed                          *)
(*   op      the last operation performed                                  *)
(*   idx     the index the last change_digit, swap or overwrite acted on   *)
(*   ret     what the last call returned                                   *)
(*   mixer   the Mixer                                                     *)
(*   pushed  the digits pushed onto the Mixer, in order                    *)
(*   pending the ones digit of a letter whose tens digit has been pushed   *)
(*   walk    fold36's locals while its loop runs                           *)
(*   seen    the bytes fold36's loop has consumed, each with the value of  *)
(*           `correct` it was matched under                                *)
(***************************************************************************)
VARIABLES mode, sample, ascii, op, idx, ret, mixer, pushed, pending, walk, seen

vars == <<mode, sample, ascii, op, idx, ret, mixer, pushed, pending, walk, seen>>

Digits == 48..57
Letters == 65..90

\* '/' and ':' (next to the digits), 'x', and a byte of a multi-byte UTF-8
\* character
OtherBytes == {47, 58, 120, 229}

Alphabet(m) == IF m = "decimal" THEN Digits ELSE Digits \cup Letters

\* the bytes a driver's slices are made of
DriverBytes(m) ==
    IF m = "decimal" THEN Digits \cup {65} \cup OtherBytes
    ELSE Digits \cup Letters \cup {64, 91} \cup OtherBytes

SeqsUpTo(S, n) == UNION {[1..k -> S] : k \in 0..n}

\* test::DECIMAL_LUHN_SAMPLES, as bytes
DECIMAL_LUHN_SAMPLES ==
    {<<51, 55, 56, 50, 56, 50, 50, 52, 54, 51, 49, 48, 48, 48, 53>>,  \* 378282246310005
     <<51, 55, 49, 52, 52, 57, 54, 51, 53, 51, 57, 56, 52, 51, 49>>,  \* 371449635398431
     <<51, 55, 56, 55, 51, 52, 52, 57, 51, 54, 55, 49, 48, 48, 48>>,  \* 378734493671000
     <<53, 54, 49, 48, 53, 57, 49, 48, 56, 49, 48, 49, 56, 50, 53, 48>>,  \* 5610591081018250
     <<51, 48, 53, 54, 57, 51, 48, 57, 48, 50, 53, 57, 48, 52>>,  \* 30569309025904
     <<51, 56, 53, 50, 48, 48, 48, 48, 48, 50, 51, 50, 51, 55>>,  \* 38520000023237
     <<54, 48, 49, 49, 49, 49, 49, 49, 49, 49, 49, 49, 49, 49, 49, 55>>,  \* 6011111111111117
     <<54, 48, 49, 49, 48, 48, 48, 57, 57, 48, 49, 51, 57, 52, 50, 52>>,  \* 6011000990139424
     <<51, 53, 51, 48, 49, 49, 49, 51, 51, 51, 51, 48, 48, 48, 48, 48>>,  \* 3530111333300000
     <<51, 53, 54, 54, 48, 48, 50, 48, 50, 48, 51, 54, 48, 53, 48, 53>>,  \* 3566002020360505
     <<53, 53, 53, 53, 53, 53, 53, 53, 53, 53, 53, 53, 52, 52, 52, 52>>,  \* 5555555555554444
     <<53, 49, 48, 53, 49, 48, 53, 49, 48, 53, 49, 48, 53, 49, 48, 48>>,  \* 5105105105105100
     <<52, 49, 49, 49, 49, 49, 49, 49, 49, 49, 49, 49, 49, 49, 49, 49>>,  \* 4111111111111111
     <<52, 48, 49, 50, 56, 56, 56, 56, 56, 56, 56, 56, 49, 56, 56, 49>>,  \* 4012888888881881
     <<52, 50, 50, 50, 50, 50, 50, 50, 50, 50, 50, 50, 50>>,  \* 4222222222222
     <<53, 48, 49, 57, 55, 49, 55, 48, 49, 48, 49, 48, 51, 55, 52, 50>>,  \* 5019717010103742
     <<54, 51, 51, 49, 49, 48, 49, 57, 57, 57, 57, 57, 48, 48, 49, 54>>,  \* 6331101999990016
     <<51, 53, 56, 55, 55, 49, 48, 53, 52, 49, 48, 50, 53, 48, 56>>,  \* 358771054102508
     <<56, 54, 55, 49, 48, 51, 48, 50, 57, 49, 49, 48, 54, 48, 50>>,  \* 867103029110602
     <<51, 53, 56, 54, 50, 53, 48, 53, 55, 57, 50, 55, 53, 49, 49>>,  \* 358625057927511
     <<51, 53, 57, 53, 49, 51, 48, 54, 51, 48, 48, 54, 48, 55, 53>>,  \* 359513063006075
     <<51, 53, 49, 56, 49, 51, 48, 55, 54, 54, 56, 52, 50, 57, 48>>}  \* 351813076684290

\* test::ALPHANUM_LUHN_SAMPLES, as bytes
ALPHANUM_LUHN_SAMPLES ==
    {<<85, 83, 53, 57, 52, 57, 49, 56, 49, 48, 52, 53>>,  \* US5949181045
     <<85, 83, 51, 56, 50, 53, 57, 80, 53, 48, 56, 57>>,  \* US38259P5089
     <<85, 83, 48, 51, 55, 56, 51, 51, 49, 48, 48, 53>>,  \* US0378331005
     <<66, 77, 71, 52, 57, 49, 66, 84, 49, 48, 56, 56>>,  \* BMG491BT1088
     <<73, 69, 48, 48, 66, 52, 66, 78, 77, 89, 51, 52>>,  \* IE00B4BNMY34
     <<85, 83, 48, 50, 51, 49, 51, 53, 49, 48, 54, 55>>,  \* US0231351067
     <<85, 83, 54, 52, 49, 49, 48, 76, 49, 48, 54, 49>>,  \* US64110L1061
     <<85, 83, 51, 48, 51, 48, 51, 77, 49, 48, 50, 55>>,  \* US30303M1027
     <<67, 72, 48, 48, 51, 49, 50, 52, 48, 49, 50, 55>>,  \* CH0031240127
     <<67, 65, 57, 56, 54, 49, 57, 49, 51, 48, 50, 51>>,  \* CA9861913023
     <<75, 82, 52, 49, 48, 49, 82, 54, 48, 48, 48, 48>>,  \* KR4101R60000
     <<75, 82, 52, 50, 48, 49, 81, 66, 50, 53, 53, 49>>,  \* KR4201QB2551
     <<75, 82, 52, 50, 48, 49, 82, 67, 51, 49, 48, 50>>,  \* KR4201RC3102
     <<75, 82, 52, 50, 48, 49, 81, 57, 50, 54, 50, 51>>,  \* KR4201Q92623
     <<75, 82, 52, 50, 48, 53, 81, 66, 50, 57, 48, 52>>,  \* KR4205QB2904
     <<75, 82, 52, 51, 48, 49, 82, 49, 50, 56, 50, 53>>,  \* KR4301R12825
     <<75, 82, 52, 51, 48, 49, 81, 67, 50, 57, 48, 54>>,  \* KR4301QC2906
     <<75, 82, 52, 50, 48, 53, 81, 57, 50, 51, 50, 55>>,  \* KR4205Q92327
     <<75, 82, 52, 51, 48, 49, 81, 66, 51, 50, 50, 56>>,  \* KR4301QB3228
     <<75, 82, 52, 51, 48, 49, 81, 57, 51, 53, 55, 57>>}  \* KR4301Q93579

\* the slices a driver starts from: every slice up to the mode's length, and
\* the tests' samples
Samples(m) ==
    IF m = "decimal" THEN SeqsUpTo(DriverBytes(m), MaxLen) \cup DECIMAL_LUHN_SAMPLES
    ELSE SeqsUpTo(DriverBytes(m), MaxLenA) \cup ALPHANUM_LUHN_SAMPLES

AllIn(s, S) == \A k \in 1..Len(s) : s[k] \in S

valid_in(m, s) == IF m = "decimal" THEN decimal_valid(s) ELSE alphanum_valid(s)

checksum_in(m, s) == IF m = "decimal" THEN decimal_checksum(s) ELSE alphanum_checksum(s)

\* test::change_digit
change_digit(digit) == IF digit = 57 THEN 48 ELSE digit + 1

\* <[u8]>::swap(a, b)
swap(s, a, b) == [s EXCEPT ![a] = s[b], ![b] = s[a]]

MixerIdle == mixer = Mixer /\ pushed = <<>> /\ pending = None

WalkIdle == walk = [i |-> 0, correct |-> FALSE, acc |-> 0, pc |-> "idle"] /\ seen = <<>>

(***************************************************************************)
(* Spec: the scalar operations, driven as the tests drive them.  A test    *)
(* asserts that its sample is valid, and then checks what valid says of a  *)
(* copy with one digit changed or two neighbours swapped; it computes the  *)
(* checksum of a body and compares it with the digit that follows.         *)
(***************************************************************************)
Init ==
    /\ mode \in {"decimal", "alphanum"}
    /\ sample \in Samples(mode)
    /\ ascii = sample
    /\ op = "init"
    /\ idx = 0
    /\ ret = FALSE
    /\ MixerIdle
    /\ WalkIdle

\* valid(sample)
Valid ==
    /\ op = "init"
    /\ op' = "valid"
    /\ ret' = valid_in(mode, ascii)
    /\ UNCHANGED <<mode, sample, ascii, idx, mixer, pushed, pending, walk, seen>>

\* checksum(sample)
Checksum ==
    /\ op = "init"
    /\ op' = "checksum"
    /\ ret' = checksum_in(mode, ascii)
    /\ UNCHANGED <<mode, sample, ascii, idx, mixer, pushed, pending, walk, seen>>

\* valid(body ++ [c]) for the c that checksum(body) returned
AppendChecksum ==
    /\ op = "checksum"
    /\ ret # None
    /\ ascii' = Append(ascii, ret[1])
    /\ op' = "append"
    /\ ret' = valid_in(mode, ascii')
    /\ UNCHANGED <<mode, sample, idx, mixer, pushed, pending, walk, seen>>

\* s[i] = change_digit(s[i]); valid(&s), on a sample found valid
ChangeDigit(i) ==
    /\ op = "valid"
    /\ ret = TRUE
    /\ ascii[i] \in Digits
    /\ ascii' = [ascii EXCEPT ![i] = change_digit(ascii[i])]
    /\ idx' = i
    /\ op' = "change_digit"
    /\ ret' = valid_in(mode, ascii')
    /\ UNCHANGED <<mode, sample, mixer, pushed, pending, walk, seen>>

\* if s[i] != s[i + 1] { s.swap(i, i + 1); decimal::valid(&s) }, on a sample
\* found valid
SwapAdjacent(i) ==
    /\ mode = "decimal"
    /\ op = "valid"
    /\ ret = TRUE
    /\ i + 1 <= Len(ascii)
    /\ ascii[i] # ascii[i + 1]
    /\ ascii' = swap(ascii, i, i + 1)
    /\ idx' = i
    /\ op' = "swap"
    /\ ret' = decimal_valid(ascii')
    /\ UNCHANGED <<mode, sample, mixer, pushed, pending, walk, seen>>

Next ==
    \/ Valid
    \/ Checksum
    \/ AppendChecksum
    \/ \E i \in 1..Len(ascii) : ChangeDigit(i)
    \/ \E i \in 1..Len(ascii) : SwapAdjacent(i)

Spec == Init /\ [][Next]_vars

(***************************************************************************)
(* SpecVec: the vector tier, driven as test_decimal_luhn_checksum_vec      *)
(* drives it: a call on the sample, or on a copy of it with one byte       *)
(* overwritten.  The samples are every short slice, the test's samples     *)
(* and, for each length up to MaxTail bytes past one full chunk, a run of  *)
(* one digit.                                                              *)
(***************************************************************************)
VecSamples ==
    SeqsUpTo(DriverBytes("decimal"), MaxShort)
        \cup DECIMAL_LUHN_SAMPLES
        \cup {[k \in 1..n |-> f] : n \in (MaxShort + 1)..(16 + MaxTail), f \in Digits}

InitVec ==
    /\ mode = "decimal"
    /\ sample \in VecSamples
    /\ ascii = sample
    /\ op = "init"
    /\ idx = 0
    /\ ret = FALSE
    /\ MixerIdle
    /\ WalkIdle

\* s[i] = b, on a fresh copy of a long sample
Overwrite(i, b) ==
    /\ op = "init"
    /\ Len(sample) > MaxShort
    /\ ascii[i] # b
    /\ ascii' = [ascii EXCEPT ![i] = b]
    /\ idx' = i
    /\ op' = "overwrite"
    /\ UNCHANGED <<mode, sample, ret, mixer, pushed, pending, walk, seen>>

ValidVec ==
    /\ op \in {"init", "overwrite"}
    /\ op' = "valid_vec"
    /\ ret' = decimal_valid_vec(ascii)
    /\ UNCHANGED <<mode, sample, ascii, idx, mixer, pushed, pending, walk, seen>>

ChecksumVec ==
    /\ op \in {"init", "overwrite"}
    /\ op' = "checksum_vec"
    /\ ret' = decimal_checksum_vec(ascii)
    /\ UNCHANGED <<mode, sample, ascii, idx, mixer, pushed, pending, walk, seen>>

NextVec ==
    \/ \E i \in 1..Len(ascii), b \in DriverBytes("decimal") : Overwrite(i, b)
    \/ ValidVec
    \/ ChecksumVec

SpecVec == InitVec /\ [][NextVec]_vars

(***************************************************************************)
(* SpecMixer: a caller feeding a Mixer one character at a time, as the doc *)
(* example does for digits and as Mixer::push's documentation prescribes   *)
(* for letters ('A' is 10: push 1, then 0), with valid() and checksum()    *)
(* called at any point.  A feed of digits alone runs to MaxPush            *)
(* characters, one with letters to MaxLenA.                                *)
(***************************************************************************)
InitMixer ==
    /\ mode = "mixer"
    /\ sample = <<>>
    /\ ascii = <<>>
    /\ op = "init"
    /\ idx = 0
    /\ ret = FALSE
    /\ MixerIdle
    /\ WalkIdle

\* m.push(c - b'0')
FeedDigit(c) ==
    /\ pending = None
    /\ Len(ascii) < (IF AllIn(ascii, Digits) THEN MaxPush ELSE MaxLenA)
    /\ mixer' = push(mixer, c - 48)
    /\ pushed' = Append(pushed, c - 48)
    /\ ascii' = Append(ascii, c)
    /\ op' = "push"
    /\ ret' = FALSE
    /\ UNCHANGED <<mode, sample, idx, pending, walk, seen>>

\* the first of a letter's two pushes: its tens digit
FeedLetterTens(c) ==
    /\ pending = None
    /\ Len(ascii) < MaxLenA
    /\ LET value == c - 65 + 10
       IN  /\ mixer' = push(mixer, value \div 10)
           /\ pushed' = Append(pushed, value \div 10)
           /\ pending' = Some(value % 10)
    /\ ascii' = Append(ascii, c)
    /\ op' = "push"
    /\ ret' = FALSE
    /\ UNCHANGED <<mode, sample, idx, walk, seen>>

\* the second: its ones digit
FeedLetterOnes ==
    /\ pending # None
    /\ mixer' = push(mixer, pending[1])
    /\ pushed' = Append(pushed, pending[1])
    /\ pending' = None
    /\ op' = "push"
    /\ ret' = FALSE
    /\ UNCHANGED <<mode, sample, ascii, idx, walk, seen>>

CallValid ==
    /\ op' = "valid"
    /\ ret' = Mixer_valid(mixer)
    /\ UNCHANGED <<mode, sample, ascii, idx, mixer, pushed, pending, walk, seen>>

CallChecksum ==
    /\ op' = "checksum"
    /\ ret' = Mixer_checksum(mixer)
    /\ UNCHANGED <<mode, sample, ascii, idx, mixer, pushed, pending, walk, seen>>

NextMixer ==
    \/ \E c \in Digits : FeedDigit(c)
    \/ \E c \in Letters : FeedLetterTens(c)
    \/ FeedLetterOnes
    \/ CallValid
    \/ CallChecksum

SpecMixer == InitMixer /\ [][NextMixer]_vars

(***************************************************************************)
(* SpecWalk: fold36's loop, one iteration per step, from either value of   *)
(* its argument `correct`.                                                 *)
(***************************************************************************)
InitWalk ==
    /\ mode = "alphanum"
    /\ sample \in Samples("alphanum")
    /\ ascii = sample
    /\ op = "init"
    /\ idx = 0
    /\ ret = FALSE
    /\ MixerIdle
    /\ \E c \in BOOLEAN : walk = [i |-> Len(sample), correct |-> c, acc |-> 0, pc |-> "loop"]
    /\ seen = <<>>

\* one iteration: the next byte from the right
Fold36Iter ==
    /\ walk.pc = "loop"
    /\ walk.i > 0
    /\ LET c == ascii[walk.i]
           r == fold36_byte(walk.correct, walk.acc, c)
       IN  IF r.ok
           THEN /\ walk' = [i |-> walk.i - 1, correct |-> r.correct, acc |-> r.acc, pc |-> "loop"]
                /\ seen' = Append(seen, [byte |-> c, correct |-> walk.correct])
                /\ UNCHANGED ret
           ELSE /\ walk' = [walk EXCEPT !.pc = "done"]
                /\ ret' = None
                /\ UNCHANGED seen
    /\ UNCHANGED <<mode, sample, ascii, op, idx, mixer, pushed, pending>>

\* Some(acc), the iterator being exhausted
Fold36Return ==
    /\ walk.pc = "loop"
    /\ walk.i = 0
    /\ walk' = [walk EXCEPT !.pc = "done"]
    /\ ret' = Some(walk.acc)
    /\ UNCHANGED <<mode, sample, ascii, op, idx, mixer, pushed, pending, seen>>

NextWalk ==
    \/ Fold36Iter
    \/ Fold36Return

SpecWalk == InitWalk /\ [][NextWalk]_vars

(***************************************************************************)
(* The claims.                                                             *)
(***************************************************************************)
HasLetter(s) == \E k \in 1..Len(s) : s[k] \in Letters

\* the ASCII of a sequence of digits
ToAscii(ds) == [k \in 1..Len(ds) |-> ds[k] + 48]

\* C1 (Spec): self-consistency.  For a body made only of characters of the
\* mode's alphabet, checksum(body) is Some(c), and valid(body ++ [c]) is true,
\* in decimal and in alphanum alike.
C1_SelfConsistency ==
    /\ (op = "checksum" /\ AllIn(sample, Alphabet(mode))) => ret # None
    /\ (op = "append") =>
           /\ AllIn(sample, Alphabet(mode))
           /\ ascii = sample \o checksum_in(mode, sample)
           /\ ret = TRUE

\* an alphanumeric body of full length that holds a letter, checksummed, and
\* then validated with its check digit appended
C1_Witness ==
    /\ op = "append"
    /\ mode = "alphanum"
    /\ Len(sample) = MaxLenA
    /\ HasLetter(sample)
    /\ ret = TRUE

\* C2 (Spec) as stated: swapping two adjacent unequal digits of a valid
\* decimal sequence gives a sequence that decimal::valid rejects.
C2_Transposition == (op = "swap" /\ decimal_valid(sample)) => ret = FALSE

\* C2 (Spec) as amended: it does unless the two digits are '0' and '9', which
\* weigh the same in either order.
C2_TranspositionExcept09 ==
    (/\ op = "swap"
     /\ decimal_valid(sample)
     /\ {sample[idx], sample[idx + 1]} # {48, 57}) => ret = FALSE

\* two unequal neighbours other than '0' and '9', swapped inside a valid
\* sequence of full length
C2_Witness ==
    /\ op = "swap"
    /\ Len(sample) = MaxLen
    /\ decimal_valid(sample)
    /\ idx > 1
    /\ sample[idx] # sample[idx + 1]
    /\ {sample[idx], sample[idx + 1]} # {48, 57}
    /\ ascii = swap(sample, idx, idx + 1)

\* C3 (Spec): single-error detection.  Replacing one digit of a valid
\* sequence by its successor ('9' by '0') gives a sequence that valid
\* rejects, in decimal and in alphanum alike.
C3_SingleError == (op = "change_digit" /\ valid_in(mode, sample)) => ret = FALSE

\* the wrapping case, in an alphanumeric sequence that holds a letter
C3_Witness ==
    /\ op = "change_digit"
    /\ mode = "alphanum"
    /\ alphanum_valid(sample)
    /\ HasLetter(sample)
    /\ sample[idx] = 57
    /\ ascii[idx] = 48

\* C4 (Spec): alphabet rejection.  checksum is Some(c) with c a digit when
\* every byte is in the mode's alphabet and None when one is not; valid is
\* false whenever a byte is outside the alphabet.
C4_AlphabetRejection ==
    /\ (op = "checksum") =>
           IF AllIn(ascii, Alphabet(mode))
           THEN ret # None /\ ret[1] \in Digits
           ELSE ret = None
    /\ (op = "valid" /\ ~AllIn(ascii, Alphabet(mode))) => ret = FALSE

\* decimal::checksum on a slice of full length whose only foreign byte is a
\* letter
C4_Witness ==
    /\ op = "checksum"
    /\ mode = "decimal"
    /\ Len(ascii) = MaxLen
    /\ \E k \in 1..Len(ascii) :
           /\ ascii[k] = 65
           /\ \A j \in 1..Len(ascii) : j # k => ascii[j] \in Digits
    /\ ret = None

\* C5 (SpecVec): the vector tier returns what the scalar tier returns, for
\* valid and for checksum, on slices of every length.
C5_VecEqualsScalar ==
    /\ (op = "valid_vec") => ret = decimal_valid(ascii)
    /\ (op = "checksum_vec") => ret = decimal_checksum(ascii)

\* valid_vec accepting a slice of more than one chunk whose leftmost chunk is
\* of odd length
C5_Witness ==
    /\ op = "valid_vec"
    /\ Len(ascii) = 17
    /\ ascii # sample
    /\ ret = TRUE

\* C6 (SpecMixer): after pushing the digits d1..dn, Mixer::valid() is
\* decimal::valid of their ASCII and Mixer::checksum() the byte inside
\* decimal::checksum of it; with nothing pushed they are true and '0'.
C6_MixerEqualsDecimal ==
    /\ (op = "valid") => ret = decimal_valid(ToAscii(pushed))
    /\ (op = "checksum") => Some(ret) = decimal_checksum(ToAscii(pushed))
    /\ (op = "valid" /\ pushed = <<>>) => ret = TRUE
    /\ (op = "checksum" /\ pushed = <<>>) => ret = 48

\* valid() accepting MaxPush digits, one of 5 or more at a doubled place
C6_Witness ==
    /\ op = "valid"
    /\ Len(pushed) = MaxPush
    /\ pushed[MaxPush - 1] >= 5
    /\ ret = TRUE

\* C7 (SpecMixer): fed a sequence over '0'..'9','A'..'Z' with each letter as
\* two pushes, tens digit first, the Mixer agrees with alphanum::valid and
\* alphanum::checksum on that sequence.
C7_MixerEqualsAlphanum ==
    (pending = None) =>
        /\ (op = "valid") => ret = alphanum_valid(ascii)
        /\ (op = "checksum") => Some(ret) = alphanum_checksum(ascii)

\* valid() accepting a sequence of full length that starts with a letter
C7_Witness ==
    /\ op = "valid"
    /\ pending = None
    /\ Len(ascii) = MaxLenA
    /\ ascii[1] \in Letters
    /\ Len(pushed) > Len(ascii)
    /\ ret = TRUE

\* the Blob of those of the digits ds[1..k] whose place, counted from the
\* right end of ds with the last digit at place 0, has parity p
RECURSIVE BlobOfPlaces(_, _, _)
BlobOfPlaces(ds, k, p) ==
    IF k = 0
    THEN Blob
    ELSE LET rest == BlobOfPlaces(ds, k - 1, p)
         IN  IF (Len(ds) - k) % 2 = p
             THEN [sum            |-> rest.sum + ds[k],
                   five_or_higher |-> rest.five_or_higher + (IF ds[k] >= 5 THEN 1 ELSE 0)]
             ELSE rest

\* C8 (SpecMixer) as stated: after one push or more, the first slot (the one
\* push adds to and valid() doubles) holds the digits at the even places from
\* the right, and the second slot those at the odd places.
C8_SlotRoles ==
    (Len(pushed) >= 1) =>
        /\ mixer[1] = BlobOfPlaces(pushed, Len(pushed), 0)
        /\ mixer[2] = BlobOfPlaces(pushed, Len(pushed), 1)

\* C8 (SpecMixer) as amended: the first slot holds the digits at the odd
\* places from the right and the second slot those at the even places, the
\* last digit pushed among them.
C8_SlotRolesSwapped ==
    (Len(pushed) >= 1) =>
        /\ mixer[1] = BlobOfPlaces(pushed, Len(pushed), 1)
        /\ mixer[2] = BlobOfPlaces(pushed, Len(pushed), 0)

\* MaxPush digits pushed, the last one 5 or more, the slots differing
C8_Witness ==
    /\ Len(pushed) = MaxPush
    /\ pushed[MaxPush] >= 5
    /\ mixer[2].five_or_higher >= 1
    /\ mixer[1].sum # mixer[2].sum

\* the value of `correct` after the k-th byte that fold36's loop consumed
CorrectAfter(k) == IF k < Len(seen) THEN seen[k + 1].correct ELSE walk.correct

\* C9 (SpecWalk) as stated: every letter that fold36's loop consumes flips
\* `correct`, as a digit does, so the byte to its left is matched under the
\* opposite value.
C9_LetterFlips ==
    \A k \in 1..Len(seen) :
        (seen[k].byte \in Letters) => CorrectAfter(k) # seen[k].correct

\* C9 (SpecWalk) as amended: a letter leaves `correct` as it is, so the byte
\* to its left is matched under the same value; a digit flips it.
C9_LetterKeeps ==
    \A k \in 1..Len(seen) :
        /\ (seen[k].byte \in Letters) => CorrectAfter(k) = seen[k].correct
        /\ (seen[k].byte \in Digits) => CorrectAfter(k) # seen[k].correct

\* the loop has consumed a letter and then the digit to its left
C9_Witness ==
    /\ Len(seen) >= 2
    /\ seen[Len(seen) - 1].byte \in Letters
    /\ seen[Len(seen)].byte \in Digits
    /\ seen[Len(seen)].correct = seen[Len(seen) - 1].correct

\* C10 (SpecMixer): in every state reached by pushing digits, each slot has
\* sum * 2 >= five_or_higher * 9, so the subtraction in valid() and in
\* checksum() does not go below zero.
C10_NoUnderflow ==
    /\ \A k \in 1..2 : mixer[k].sum * 2 >= mixer[k].five_or_higher * 9
    /\ Mixer_valid_sum(mixer) >= mixer[2].sum
    /\ Mixer_checksum_sum(mixer) >= mixer[1].sum

\* two fives in one slot: the subtraction leaves 2
C10_Witness ==
    /\ mixer[1].five_or_higher = 2
    /\ mixer[1].sum = 10
    /\ op = "valid"

====
